---- MODULE Spec2Model ----
(***************************************************************************)
(* Workflow engine of ai-server-management (src/workflow_engine.py):       *)
(* templates, the instance registry, create_workflow, execute_workflow     *)
(* (stepped through its loop), the summary and the recommendations.        *)
(***************************************************************************)
EXTENDS Integers, Sequences, FiniteSets, TLC

\* ---------------------------------------------------------------- bounds
\* Ticks of the logical clock that stamps created_at and WorkflowResult.timestamp.
MaxClock == 6
\* connects made and requests written by one MCPClient
MaxOps == 3

\* ------------------------------------------------------------ input sets
WfIds == {"wf1", "wf2"}
Servers == {"srv1"}
TemplateNames == {"web_server_diagnostic", "system_health_check", "security_audit"}
TemplateInputs == TemplateNames \cup {"not_a_template"}

\* None of Python, for a task id
NoTask == "None"

\* ------------------------------------------------- WorkflowTemplate (data)
Task(id, type, command, deps) ==
    [id |-> id, type |-> type, command |-> command, dependencies |-> deps]

web_server_diagnostic ==
    << Task("check_service_status", "diagnostic", "systemctl status apache2 nginx", {}),
       Task("check_ports", "diagnostic", "netstat -tlnp | grep ':80\\|:443'",
            {"check_service_status"}),
       Task("check_logs", "analysis",
            "tail -n 50 /var/log/apache2/error.log /var/log/nginx/error.log",
            {"check_service_status"}),
       Task("test_connectivity", "diagnostic",
            "curl -I localhost && curl -Ik https://localhost", {"check_ports"}) >>

system_health_check ==
    << Task("check_disk_space", "monitoring", "df -h", {}),
       Task("check_memory", "monitoring", "free -h && ps aux --sort=-%mem | head -10", {}),
       Task("check_cpu", "monitoring", "top -bn1 | head -20 && uptime", {}),
       Task("check_processes", "analysis",
            "ps aux | grep -E 'ssh|cron|systemd' | head -10", {"check_cpu"}) >>

security_audit ==
    << Task("check_failed_logins", "analysis",
            "journalctl -u ssh --since='1 hour ago' | grep -i failed", {}),
       Task("check_open_ports", "diagnostic", "netstat -tlnp", {}),
       Task("check_updates", "monitoring",
            "apt list --upgradable 2>/dev/null | grep -i security || yum check-update --security",
            {}) >>

\* template_map of create_workflow
template_map(name) ==
    CASE name = "web_server_diagnostic" -> web_server_diagnostic
      [] name = "system_health_check" -> system_health_check
      [] name = "security_audit" -> security_audit
      [] OTHER -> << >>   \* never looked up: create_workflow tests the name first

\* Task graphs a template may hold: three tasks, each of either kind that
\* matters to the stop decision, each with no dependency or one: on a task of
\* the graph (itself included, so cycles occur) or on an id that names no task
GraphIds == << "t1", "t2", "t3" >>
GraphDeps == {{}} \cup { {d} : d \in {"t1", "t2", "t3", "missing"} }
GraphTypes == {"diagnostic", "analysis"}
Graphs ==
    { [i \in 1..Len(GraphIds) |-> Task(GraphIds[i], ty[i], "uptime", dp[i])] :
        ty \in [1..Len(GraphIds) -> GraphTypes], dp \in [1..Len(GraphIds) -> GraphDeps] }

\* ------------------------------------------------------- strings, outputs
\* An output is a sequence of string pieces (their concatenation): <<>> is "".
\* The texts of the model that contain "error" once lower-cased.
ErrorTexts ==
    {"ERROR: disk failure",
     "tail -n 50 /var/log/apache2/error.log /var/log/nginx/error.log"}

\* "error" in str(output).lower()
LowerContainsError(output) == \E i \in 1..Len(output) : output[i] \in ErrorTexts

\* _ClientHandler._handle_request for EXECUTE_COMMAND: f"Executed '{cmd}' successfully"
StubOutput(cmd) == << "Executed '", cmd, "' successfully" >>

\* What the call of execute_command gives _execute_task for a command, by kind:
\* None (timeout, not connected, failed reconnect, send error caught by the client),
\* an exception, a reply without a status field, the reference agent's reply, a
\* reply with status "ok" whose output reports an error, or a reply with status
\* "error" and no output (the agent's error replies, mcp_stub_server.py 49-54, 85-89).
NoResponse ==
    [present |-> FALSE, raises |-> FALSE, has_status |-> FALSE, status |-> "",
     has_output |-> FALSE, output |-> <<>>]
Raised == [NoResponse EXCEPT !.raises = TRUE]
Reply(has_status, status, has_output, output) ==
    [present |-> TRUE, raises |-> FALSE, has_status |-> has_status, status |-> status,
     has_output |-> has_output, output |-> output]
ResponseKinds == {"none", "raises", "no_status", "stub", "error_output", "error_status"}
Response(kind, cmd) ==
    CASE kind = "none" -> NoResponse
      [] kind = "raises" -> Raised
      [] kind = "no_status" -> Reply(FALSE, "", TRUE, StubOutput(cmd))
      [] kind = "stub" -> Reply(TRUE, "ok", TRUE, StubOutput(cmd))
      [] kind = "error_output" -> Reply(TRUE, "ok", TRUE, << "ERROR: disk failure" >>)
      [] kind = "error_status" -> Reply(TRUE, "error", FALSE, << >>)
\* the kinds the agent and the client produce when no exception reaches _execute_task
\* and every reply with a status carries an output
EngineKinds == {"none", "no_status", "stub", "error_output"}

\* What memory_client.store does with a record: True, False (the service answers
\* another code than 200, or a requests.RequestException is caught), or an
\* exception of another class, which escapes
AuditOutcomes == {"ok", "failed", "raised"}

\* ------------------------------------------------------------------ state
\* ------------------------------------------------------ transport: frames
\* the threads that call send_message on the one MCPClient
Callers == {"c1", "c2"}

\* get_server_status, lines 88-91, and execute_command, lines 98-102: the message
status_message(server_id) == [type |-> "GET_SERVER_STATUS", server_id |-> server_id]
command_message(server_id, command) ==
    [type |-> "EXECUTE_COMMAND", server_id |-> server_id, command |-> command]

\* what the callers send: the two requests of the client's interface
Messages ==
    { status_message("srv1"), command_message("srv1", "uptime") }
NoRequest == [type |-> "None"]
\* a finished call: the request, whether it was written, and the return value
\* (<< >> for None, else the frame)
NoReturned == [request |-> NoRequest, sent |-> FALSE, response |-> << >>]

\* (mutant) the reply names the agent instead of the server asked for
handle_request_own_id(request) ==
    IF request.type = "GET_SERVER_STATUS"
    THEN [response_to |-> request.type, status |-> "ok", server_id |-> "stub",
          server_status |-> "canned"]
    ELSE IF request.type = "EXECUTE_COMMAND"
    THEN [response_to |-> request.type, status |-> "ok", server_id |-> "stub",
          output |-> StubOutput(request.command)]
    ELSE [response_to |-> request.type, status |-> "error",
          message |-> "Unsupported request type"]

\* _ClientHandler._handle_request: the canned response for a request (every
\* message of Messages has a type and, where it is read, a server_id and a command)
handle_request(request) ==
    IF request.type = "GET_SERVER_STATUS"
    THEN [response_to |-> request.type, status |-> "ok", server_id |-> request.server_id,
          server_status |-> "canned"]
    ELSE IF request.type = "EXECUTE_COMMAND"
    THEN [response_to |-> request.type, status |-> "ok", server_id |-> request.server_id,
          output |-> StubOutput(request.command)]
    ELSE [response_to |-> request.type, status |-> "error",
          message |-> "Unsupported request type"]

\* _ClientHandler.run, lines 49-54: the reply when the bytes received are not one
\* JSON document
ErrorFrame == [response_to |-> "ERROR", status |-> "error", message |-> "str(exc)"]

\* ------------------------------------------------ ServerManagementAgent
\* a return value: a string (its pieces), or None
Str(text) == [none |-> FALSE, text |-> text]
PyNone == [none |-> TRUE, text |-> << >>]
\* None of Python, for what send_message returns
NoFrame == << >>

\* ServerManagementAgent.__init__: an empty context, no call made
NoAgentCall ==
    [context |-> {}, request |-> [kind |-> "none"], response |-> NoFrame, ret |-> Str(<< >>)]

\* The value of the 'data' key of a request: absent, a dict (its items), or a
\* JSON value that is no dict
NoData == [present |-> FALSE, dict |-> TRUE, items |-> {}]
Dict(items) == [present |-> TRUE, dict |-> TRUE, items |-> items]
NotADict == [present |-> TRUE, dict |-> FALSE, items |-> {}]
AgentData ==
    { NoData, Dict({}), Dict({<< "command", "uptime" >>}), Dict({<< "command", "" >>}),
      Dict({<< "server_id", "srv1" >>}), NotADict }
\* The value of the 'action' key: the two actions the agent knows, another one,
\* or None when the key is absent
AgentActions == {"get_server_status", "execute_command", "restart_server", "None"}
\* The requests: plain text, a JSON document that is no object, a JSON object
Requests ==
    { [kind |-> "text", text |-> t] : t \in {"is the server up?", "{not json"} }
    \cup { [kind |-> "json", object |-> FALSE] }
    \cup { [kind |-> "json", object |-> TRUE, action |-> a, data |-> d] :
             a \in AgentActions, d \in AgentData }
\* What _MCP_CLIENT.get_server_status / execute_command give: None or a frame
AgentResponses ==
    { NoFrame, handle_request(status_message("all")),
      handle_request(command_message("all", "uptime")), ErrorFrame }
\* What self.agent.run(prompt) does
RunOutcomes == {"answers", "raises"}

\* dict.update(data)
dict_update(context, items) ==
    { p \in context : \A q \in items : q[1] # p[1] } \cup items
\* data.get(key)
dict_get(items, key) ==
    IF \E p \in items : p[1] = key THEN (CHOOSE p \in items : p[1] = key)[2] ELSE "None"
\* json.dumps(value)
json_dumps(value) == << "json", value >>
\* the string of the outer handler, line 69
ErrorString == Str(<< "Error processing request: ", "str(e)" >>)
\* json.dumps(resp or {"status": "error", "message": "MCP unavailable"})
dumps_or_unavailable(resp) ==
    IF resp # NoFrame THEN Str(json_dumps(resp))
    ELSE Str(json_dumps([status |-> "error", message |-> "MCP unavailable"]))

\* ServerManagementAgent.get_server_status, lines 73-78; an exception escaping
\* mem_store (line 77) is caught by process_request, line 68
agent_get_server_status(resp, audit) ==
    IF resp # NoFrame /\ audit = "raised" THEN ErrorString
    ELSE dumps_or_unavailable(resp)

\* ServerManagementAgent.execute_command, lines 84-92
agent_execute_command(command, resp, audit) ==
    IF command \in {"None", ""} THEN Str(<< "No command provided" >>)
    ELSE IF resp # NoFrame /\ audit = "raised" THEN ErrorString
    ELSE dumps_or_unavailable(resp)

\* ServerManagementAgent.process_request, lines 47-69: the value returned. A
\* JSON object with another action, or none, leaves the inner try at line 62
\* and the function ends without a return statement.
process_request_value(request, resp, audit, run) ==
    IF request.kind = "text"
    THEN IF run = "raises" THEN ErrorString
         ELSE Str(<< "agent.run: ", request.text >>)
    ELSE IF ~ request.object THEN ErrorString
    ELSE IF ~ request.data.dict THEN ErrorString
    ELSE IF request.action = "get_server_status" THEN agent_get_server_status(resp, audit)
    ELSE IF request.action = "execute_command"
    THEN agent_execute_command(dict_get(request.data.items, "command"), resp, audit)
    ELSE PyNone

\* line 55: self.context.update(data), reached by a JSON object whose data is a dict
process_request_context(context, request) ==
    IF request.kind = "json" /\ request.object /\ request.data.dict
    THEN dict_update(context, request.data.items)
    ELSE context

\* a socket object: socket.socket(...), line 21, then connect, line 22
NewConn(ok) ==
    [established |-> ok, closed |-> FALSE, peer_closed |-> FALSE,
     to_server |-> << >>, from_server |-> << >>]

VARIABLES
    active_workflows,  \* registry: workflow id -> instance object (0: not registered)
    heap,              \* the live instance objects, by creation time
    clock,             \* logical time: instances and results created so far
    pc,                \* position of the caller inside execute_workflow
    run_wf,            \* local `workflow` of the running execute_workflow (0: none)
    executed_tasks,    \* local `executed_tasks` of the running call
    next_task,         \* local `next_task` (task id or NoTask)
    result,            \* local `result` of the last _execute_task
    trace,             \* the results _execute_task returned in the running call, in order
    exc,               \* whether the running call entered `except Exception as e`
    last_audit,        \* what the last mem_store call did ("none" before the first)
    audits,            \* the audit records the running call has handed to mem_store
    other,             \* the locals of a second thread calling the engine, while
                       \* the locals above are those of the thread that steps
    ret                \* what the last finished call returned

\* The transport, MCPClient, with the agent at the other end of its connections
VARIABLES
    connected,         \* MCPClient.connected
    socket,            \* MCPClient.socket: 0 for None, else the number of the socket object
    conns,             \* the socket objects made so far, with the bytes in flight
    readers,           \* the _listen_for_messages threads started so far: the socket
                       \* each waits on in recv, 0 once it has left the loop
    response_queue,    \* MCPClient.response_queue
    callers,           \* the threads calling send_message: the request each waits
                       \* for a response to, NoRequest when it is not in a call
    returned,          \* the send_message call that returned last
    ops,               \* connects made and requests written so far
    disturbed          \* history: something other than connect, request, reply happened

\* ServerManagementAgent
VARIABLES
    agent              \* self.context, and the last process_request call: its
                       \* request, what the transport gave it, what it returned

evars == << active_workflows, heap, clock, pc, run_wf, executed_tasks, next_task,
            result, trace, exc, last_audit, audits, other, ret >>
tvars == << connected, socket, conns, readers, response_queue, callers, returned, ops,
            disturbed >>
vars == << evars, tvars, agent >>

NoResult == [task_id |-> NoTask, status |-> "none", output |-> <<>>,
             error |-> "None", timestamp |-> 0]
NoReturn == [op |-> "none"]
\* the locals of a thread that is in no call of the engine
IdleThread ==
    [pc |-> "idle", run_wf |-> 0, executed_tasks |-> {}, next_task |-> NoTask,
     result |-> NoResult, trace |-> << >>, exc |-> FALSE, audits |-> << >>,
     ret |-> NoReturn]

Init ==
    /\ active_workflows = [w \in WfIds |-> 0]
    /\ heap = [o \in {} |-> 0]
    /\ clock = 0
    /\ pc = "idle"
    /\ run_wf = 0
    /\ executed_tasks = {}
    /\ next_task = NoTask
    /\ result = NoResult
    /\ trace = << >>
    /\ exc = FALSE
    /\ last_audit = "none"
    /\ audits = << >>
    /\ other = IdleThread
    /\ ret = NoReturn
    /\ agent = NoAgentCall
    /\ connected = FALSE
    /\ socket = 0
    /\ conns = << >>
    /\ readers = << >>
    /\ response_queue = << >>
    /\ callers = [c \in Callers |-> NoRequest]
    /\ returned = NoReturned
    /\ ops = 0
    /\ disturbed = FALSE

\* An engine whose templates dict holds one more template, "custom", with any
\* of the task graphs of Graphs, after create_workflow("wf1", "srv1", "custom")
InitG ==
    /\ active_workflows = [w \in WfIds |-> IF w = "wf1" THEN 1 ELSE 0]
    /\ \E g \in Graphs :
          heap = [o \in {1} |->
                    [id |-> "wf1", server_id |-> "srv1", template |-> "custom",
                     status |-> "pending", tasks |-> g, results |-> << >>,
                     created_at |-> 1, current_task |-> NoTask]]
    /\ clock = 1
    /\ pc = "idle"
    /\ run_wf = 0
    /\ executed_tasks = {}
    /\ next_task = NoTask
    /\ result = NoResult
    /\ trace = << >>
    /\ exc = FALSE
    /\ last_audit = "ok"
    /\ audits = << [kind |-> "created", task_id |-> NoTask] >>
    /\ other = IdleThread
    /\ ret = [op |-> "create_workflow", value |-> "True",
              workflow_id |-> "wf1", template_name |-> "custom"]
    /\ agent = NoAgentCall
    /\ connected = FALSE
    /\ socket = 0
    /\ conns = << >>
    /\ readers = << >>
    /\ response_queue = << >>
    /\ callers = [c \in Callers |-> NoRequest]
    /\ returned = NoReturned
    /\ ops = 0
    /\ disturbed = FALSE

\* ---------------------------------------------------------------- helpers
\* workflow["tasks"]: the tasks of the instance, in insertion order
TasksOf(wf) == wf.tasks
TaskIds(tasks) == { tasks[i].id : i \in 1..Len(tasks) }
TaskById(tasks, id) == tasks[CHOOSE i \in 1..Len(tasks) : tasks[i].id = id]

\* keys of workflow["results"] (a dict: insertion-ordered, one entry per key)
ResultKeys(results) == { results[i].task_id : i \in 1..Len(results) }
ResultOf(results, id) == results[CHOOSE i \in 1..Len(results) : results[i].task_id = id]

\* (mutant) results kept as a list: every result is appended
DictSetAppend(results, r) == Append(results, r)

\* workflow["results"][task_id] = r : replace in place, or append a new key
DictSet(results, r) ==
    IF r.task_id \in ResultKeys(results)
    THEN [i \in 1..Len(results) |->
            IF results[i].task_id = r.task_id THEN r ELSE results[i]]
    ELSE Append(results, r)

\* the instance object `workflow` with one field changed
Upd(h, o, field, value) == [h EXCEPT ![o] = [@ EXCEPT ![field] = value]]

\* ------------------------------------------------------ WorkflowEngine
\* (mutant) line 226 sets another status
set_running_paused(h, o) == Upd(h, o, "status", "paused")

\* execute_workflow, line 226: workflow["status"] = WorkflowStatus.RUNNING
set_running(h, o) == Upd(h, o, "status", "running")

\* (mutant) the dependency test inverted
deps_satisfied_inverted(task, executed) == \E dep \in task.dependencies : dep \notin executed

\* _find_next_task: deps_satisfied = all(dep in executed_tasks for dep in task.dependencies)
deps_satisfied(task, executed) == \A dep \in task.dependencies : dep \in executed

\* (mutant) executed tasks are not skipped
find_next_task_no_skip(tasks, executed) ==
    LET eligible == { i \in 1..Len(tasks) : deps_satisfied(tasks[i], executed) }
    IN  IF eligible = {} THEN NoTask
        ELSE tasks[CHOOSE i \in eligible : \A j \in eligible : i <= j].id

\* (mutant) the last eligible task is taken instead of the first
find_next_task_last(tasks, executed) ==
    LET eligible == { i \in 1..Len(tasks) :
                        /\ tasks[i].id \notin executed
                        /\ deps_satisfied(tasks[i], executed) }
    IN  IF eligible = {} THEN NoTask
        ELSE tasks[CHOOSE i \in eligible : \A j \in eligible : i >= j].id

\* (mutant) when no task is eligible, a task that was not executed is taken
find_next_task_any_pending(tasks, executed) ==
    LET eligible == { i \in 1..Len(tasks) :
                        /\ tasks[i].id \notin executed
                        /\ deps_satisfied(tasks[i], executed) }
        pending == { i \in 1..Len(tasks) : tasks[i].id \notin executed }
    IN  IF pending = {} THEN NoTask
        ELSE IF eligible = {} THEN tasks[CHOOSE i \in pending : \A j \in pending : i <= j].id
        ELSE tasks[CHOOSE i \in eligible : \A j \in eligible : i <= j].id

\* _find_next_task: first task, in insertion order, not executed and with its
\* dependencies executed; NoTask when there is none
find_next_task(tasks, executed) ==
    LET eligible == { i \in 1..Len(tasks) :
                        /\ tasks[i].id \notin executed
                        /\ deps_satisfied(tasks[i], executed) }
    IN  IF eligible = {} THEN NoTask
        ELSE tasks[CHOOSE i \in eligible : \A j \in eligible : i <= j].id

\* (mutant) only a reply with status "ok" counts as completed
execute_task_ok_only(task, response, now) ==
    IF response.present /\ response.has_status /\ response.status = "ok"
    THEN [task_id |-> task.id, status |-> "completed",
          output |-> IF response.has_output THEN response.output ELSE << >>,
          error |-> "None", timestamp |-> now]
    ELSE [task_id |-> task.id, status |-> "failed", output |-> << >>,
          error |-> "No valid response from MCP client", timestamp |-> now]

\* (mutant) a failed result keeps the output of the reply
execute_task_keeps_output(task, response, now) ==
    IF response.raises
    THEN [task_id |-> task.id, status |-> "failed", output |-> << >>,
          error |-> "str(e)", timestamp |-> now]
    ELSE IF response.present /\ response.has_status
    THEN [task_id |-> task.id, status |-> "completed",
          output |-> IF response.has_output THEN response.output ELSE << >>,
          error |-> "None", timestamp |-> now]
    ELSE [task_id |-> task.id, status |-> "failed", output |-> response.output,
          error |-> "No valid response from MCP client", timestamp |-> now]

\* _execute_task: a response with a status field gives a completed result with
\* str(response.get("output", "")), no response or a reply without status a
\* failed result with empty output, an exception a failed result with str(e)
execute_task(task, response, now) ==
    IF response.raises
    THEN [task_id |-> task.id, status |-> "failed", output |-> << >>,
          error |-> "str(e)", timestamp |-> now]
    ELSE IF response.present /\ response.has_status
    THEN [task_id |-> task.id, status |-> "completed",
          output |-> IF response.has_output THEN response.output ELSE << >>,
          error |-> "None", timestamp |-> now]
    ELSE [task_id |-> task.id, status |-> "failed", output |-> << >>,
          error |-> "No valid response from MCP client", timestamp |-> now]

\* (mutant) the stop decision tests another task type
stop_on_failure_wrong_type(res, task) == res.status = "failed" /\ task.type = "remediation"

\* (mutant) the stop decision ignores the task type
stop_on_any_failure(res, task) == res.status = "failed"

\* execute_workflow: "Stop on critical failures"
stop_on_failure(res, task) == res.status = "failed" /\ task.type = "diagnostic"

\* round(x, 1) of Python for x = n / d * 100 with n, d >= 0, d > 0, in tenths:
\* nearest tenth, a tie going to the even tenth
RoundTenths(n, d) ==
    LET q == (n * 1000) \div d
        r == (n * 1000) % d
    IN  IF 2 * r > d \/ (2 * r = d /\ q % 2 = 1) THEN q + 1 ELSE q

\* (mutant) the rate is truncated instead of rounded
success_rate_truncated(completed, total) ==
    IF total > 0 THEN (completed * 1000) \div total ELSE 0

\* success_rate of the summary, in tenths of a percent
success_rate(completed, total) ==
    IF total > 0 THEN RoundTenths(completed, total) ELSE 0

\* (mutant) the results are counted instead of the tasks
total_results(wf) == Len(wf.results)

\* _generate_workflow_summary: total_tasks = len(workflow["tasks"])
total_tasks(wf) == Len(TasksOf(wf))

CountStatus(results, st) == Cardinality({ i \in 1..Len(results) : results[i].status = st })

\* (mutant) the WARNING test ignores the task type
recommendation_any_type(tasks, r) ==
    IF r.status = "failed" THEN << [level |-> "CRITICAL", task |-> r.task_id] >>
    ELSE IF LowerContainsError(r.output)
         THEN << [level |-> "WARNING", task |-> r.task_id] >>
         ELSE << >>

\* _generate_recommendations: the line for one result, << >> when it adds none
recommendation(tasks, r) ==
    LET task == TaskById(tasks, r.task_id)
    IN  IF r.status = "failed" THEN << [level |-> "CRITICAL", task |-> r.task_id] >>
        ELSE IF task.type = "monitoring" /\ LowerContainsError(r.output)
             THEN << [level |-> "WARNING", task |-> r.task_id] >>
             ELSE << >>

RECURSIVE recommendation_lines(_, _, _)
recommendation_lines(tasks, results, i) ==
    IF i > Len(results) THEN << >>
    ELSE recommendation(tasks, results[i]) \o recommendation_lines(tasks, results, i + 1)

Healthy == << [level |-> "HEALTHY", task |-> NoTask] >>

\* (mutant) the recommendations without the line added when there is none
generate_recommendations_no_default(wf) == recommendation_lines(TasksOf(wf), wf.results, 1)

\* (mutant) a failed instance gets a line of its own
generate_recommendations_by_status(wf) ==
    LET lines == recommendation_lines(TasksOf(wf), wf.results, 1)
    IN  IF wf.status = "failed"
        THEN lines \o << [level |-> "CRITICAL", task |-> NoTask] >>
        ELSE IF lines = << >> THEN Healthy ELSE lines

\* _generate_recommendations: the lines of the results, in the order of results, or
\* the single "system appears healthy" line
generate_recommendations(wf) ==
    LET lines == recommendation_lines(TasksOf(wf), wf.results, 1)
    IN  IF lines = << >> THEN Healthy ELSE lines

generate_workflow_summary(wf) ==
    LET completed == CountStatus(wf.results, "completed")
        failed == CountStatus(wf.results, "failed")
    IN  [op |-> "execute_workflow",
         workflow_id |-> wf.id, server_id |-> wf.server_id, template |-> wf.template,
         status |-> wf.status,
         summary |-> [total_tasks |-> total_tasks(wf), completed |-> completed,
                      failed |-> failed,
                      success_rate |-> success_rate(completed, total_tasks(wf))],
         results |-> wf.results,
         recommendations |-> generate_recommendations(wf)]

\* ------------------------------------------------------------- operations
\* (mutant) an unknown template name is taken for a known one
known_template_any(template_name) == TRUE

\* create_workflow, line 191: template_name in template_map
known_template(template_name) == template_name \in TemplateNames

\* (mutant) a record the store does not take aborts the caller
mem_store_raises_on_failure(audit) == audit # "ok"

\* memory_client.store, lines 56-61: False for another code than 200 and for a
\* requests.RequestException; any other exception reaches the caller of mem_store
mem_store_raises(audit) == audit = "raised"

\* list_active_workflows: the projection of every registered instance
list_active_workflows ==
    { [id |-> heap[active_workflows[w]].id,
       server_id |-> heap[active_workflows[w]].server_id,
       template |-> heap[active_workflows[w]].template,
       status |-> heap[active_workflows[w]].status,
       current_task |-> heap[active_workflows[w]].current_task,
       created_at |-> heap[active_workflows[w]].created_at] :
        w \in { v \in WfIds : active_workflows[v] # 0 } }

\* (mutant) the new instance takes over the results of the instance it replaces
new_workflow_keeps_results(workflow_id, server_id, template_name, now) ==
    [id |-> workflow_id, server_id |-> server_id, template |-> template_name,
     status |-> "pending", tasks |-> template_map(template_name),
     results |-> IF active_workflows[workflow_id] = 0 THEN << >>
                 ELSE heap[active_workflows[workflow_id]].results,
     created_at |-> now, current_task |-> NoTask]

\* create_workflow, lines 195-206: the instance built from the template
new_workflow(workflow_id, server_id, template_name, now) ==
    [id |-> workflow_id, server_id |-> server_id, template |-> template_name,
     status |-> "pending", tasks |-> template_map(template_name),
     results |-> << >>, created_at |-> now, current_task |-> NoTask]

\* (mutant) the registry holds the newest instance only
register_alone(registry, workflow_id, o) ==
    [w \in WfIds |-> IF w = workflow_id THEN o ELSE 0]

\* create_workflow, line 208: self.active_workflows[workflow_id] = workflow
register(registry, workflow_id, o) == [registry EXCEPT ![workflow_id] = o]

\* The instance objects still referenced once the registry is `registry`
Live(registry) == { registry[w] : w \in WfIds } \ {0}
\* ... and the one the local `workflow` of the other thread references
Held == {other.run_wf} \ {0}

\* create_workflow(workflow_id, server_id, template_name). `audit` is what the
\* mem_store call of line 211 does: when it lets an exception escape
\* (memory_client.store catches only requests.RequestException), the instance
\* is registered already.
\* An instance object is named by its creation time; an object that neither
\* the registry nor a running call references is dropped.
create_workflow(workflow_id, server_id, template_name, audit) ==
    /\ pc = "idle"
    /\ IF ~ known_template(template_name)
       THEN /\ ret' = [op |-> "create_workflow", value |-> "False",
                       workflow_id |-> workflow_id, template_name |-> template_name]
            /\ audits' = << >>
            /\ UNCHANGED << active_workflows, heap, clock, last_audit >>
       ELSE /\ clock < MaxClock
            /\ clock' = clock + 1
            /\ active_workflows' = register(active_workflows, workflow_id, clock + 1)
            /\ heap' = [o \in Live(active_workflows') \cup Held |->
                 IF o = clock + 1
                 THEN new_workflow(workflow_id, server_id, template_name, clock + 1)
                 ELSE heap[o]]
            /\ last_audit' = audit
            /\ audits' = << [kind |-> "created", task_id |-> NoTask] >>
            /\ ret' = [op |-> "create_workflow",
                       value |-> IF mem_store_raises(audit) THEN "raised" ELSE "True",
                       workflow_id |-> workflow_id, template_name |-> template_name]
    \* the locals of the call that returned before are gone
    /\ run_wf' = 0
    /\ executed_tasks' = {}
    /\ next_task' = NoTask
    /\ result' = NoResult
    /\ trace' = << >>
    /\ exc' = FALSE
    /\ UNCHANGED pc
    /\ UNCHANGED << tvars, other, agent >>

\* (mutant) the call for an unknown id writes the error to the audit store
execute_workflow_logs_not_found(workflow_id) ==
    /\ pc = "idle"
    /\ IF active_workflows[workflow_id] = 0
       THEN /\ ret' = [op |-> "execute_workflow", error |-> "Workflow not found"]
            /\ run_wf' = 0
            /\ audits' = << [kind |-> "not_found", task_id |-> NoTask] >>
            /\ last_audit' = "ok"
            /\ UNCHANGED << heap, pc >>
       ELSE /\ clock + Len(TasksOf(heap[active_workflows[workflow_id]])) <= MaxClock
            /\ run_wf' = active_workflows[workflow_id]
            /\ heap' = set_running(heap, active_workflows[workflow_id])
            /\ pc' = "select"
            /\ ret' = NoReturn
            /\ audits' = << >>
            /\ UNCHANGED last_audit
    /\ executed_tasks' = {}
    /\ trace' = << >>
    /\ next_task' = NoTask
    /\ result' = NoResult
    /\ exc' = FALSE
    /\ UNCHANGED << active_workflows, clock >>
    /\ UNCHANGED << tvars, other, agent >>

\* execute_workflow, lines 222-228: unknown id, or status RUNNING and an empty
\* executed_tasks.
execute_workflow(workflow_id) ==
    /\ pc = "idle"
    /\ IF active_workflows[workflow_id] = 0
       THEN /\ ret' = [op |-> "execute_workflow", error |-> "Workflow not found"]
            /\ run_wf' = 0
            /\ UNCHANGED << heap, pc >>
       ELSE /\ clock + Len(TasksOf(heap[active_workflows[workflow_id]])) <= MaxClock
            /\ run_wf' = active_workflows[workflow_id]
            /\ heap' = set_running(heap, active_workflows[workflow_id])
            /\ pc' = "select"
            /\ ret' = NoReturn
    /\ executed_tasks' = {}
    /\ trace' = << >>
    /\ next_task' = NoTask
    /\ result' = NoResult
    /\ exc' = FALSE
    /\ audits' = << >>
    /\ UNCHANGED << active_workflows, clock, last_audit >>
    /\ UNCHANGED << tvars, other, agent >>

\* lines 233-237: next_task = self._find_next_task(...); break when there is none,
\* else workflow["current_task"] = next_task.id
select_task ==
    /\ pc = "select"
    /\ LET t == find_next_task(TasksOf(heap[run_wf]), executed_tasks)
       IN  /\ next_task' = t
           /\ IF t = NoTask
              THEN /\ pc' = "finish"
                   /\ UNCHANGED heap
              ELSE /\ pc' = "exec"
                   /\ heap' = Upd(heap, run_wf, "current_task", t)
    /\ UNCHANGED << active_workflows, clock, run_wf, executed_tasks, result, trace,
                    exc, last_audit, audits, ret >>
    /\ UNCHANGED << tvars, other, agent >>

\* lines 291-306 and 240-242: the result _execute_task makes of what
\* execute_command gave it; results[next_task.id] = asdict(result);
\* executed_tasks.add(next_task.id)
record_result(response) ==
    /\ clock < MaxClock
    /\ LET task == TaskById(TasksOf(heap[run_wf]), next_task)
           res == execute_task(task, response, clock + 1)
       IN  /\ result' = res
           /\ heap' = Upd(heap, run_wf, "results", DictSet(heap[run_wf].results, res))
           /\ trace' = Append(trace, res @@ [response |-> response])
    /\ executed_tasks' = executed_tasks \cup {next_task}
    /\ clock' = clock + 1
    /\ pc' = "audit"
    /\ UNCHANGED << active_workflows, run_wf, next_task, exc, last_audit, audits, ret >>
    /\ UNCHANGED << other, agent >>

\* lines 240-242: result = self._execute_task(...); results[next_task.id] = asdict(result);
\* executed_tasks.add(next_task.id). `kind`: what the call of execute_command gives
run_task(kind) ==
    /\ pc = "exec"
    /\ record_result(Response(kind, TaskById(TasksOf(heap[run_wf]), next_task).command))
    /\ UNCHANGED tvars

\* (mutant) the task record is written after the stop decision, so not for the
\* task that halts the run
task_audit_unless_halt(log, res, task) ==
    IF res.status = "failed" /\ task.type = "diagnostic" THEN log
    ELSE Append(log, [kind |-> "task", task_id |-> res.task_id])

\* lines 245-249: mem_store(f"Workflow task {next_task.name}: ...")
task_audit(log, res, task) == Append(log, [kind |-> "task", task_id |-> res.task_id])

\* lines 245-256 and 261-263: the task's audit record, then the stop decision.
\* An exception escaping mem_store is caught at line 261: status FAILED, and
\* current_task is left as it is.
audit_task(audit) ==
    /\ pc = "audit"
    /\ last_audit' = audit
    /\ audits' = task_audit(audits, result, TaskById(TasksOf(heap[run_wf]), next_task))
    /\ IF mem_store_raises(audit)
       THEN /\ heap' = Upd(heap, run_wf, "status", "failed")
            /\ exc' = TRUE
            /\ pc' = "summary"
       ELSE /\ UNCHANGED << heap, exc >>
            /\ pc' = IF stop_on_failure(result, TaskById(TasksOf(heap[run_wf]), next_task))
                     THEN "finish" ELSE "select"
    /\ UNCHANGED << active_workflows, clock, run_wf, executed_tasks, next_task,
                    result, trace, ret >>
    /\ UNCHANGED << tvars, other, agent >>

\* (mutant) a run halted by a failed diagnostic task is marked failed
finish_loop_failed_on_halt ==
    /\ pc = "finish"
    /\ heap' = [heap EXCEPT ![run_wf] =
                  [@ EXCEPT !.status = IF result.status = "failed" THEN "failed"
                                       ELSE "completed",
                            !.current_task = NoTask]]
    /\ pc' = "summary"
    /\ UNCHANGED << active_workflows, clock, run_wf, executed_tasks, next_task,
                    result, trace, exc, last_audit, audits, ret >>
    /\ UNCHANGED << tvars, other, agent >>

\* lines 258-259: the loop was left by a break
finish_loop ==
    /\ pc = "finish"
    /\ heap' = [heap EXCEPT ![run_wf] =
                  [@ EXCEPT !.status = "completed", !.current_task = NoTask]]
    /\ pc' = "summary"
    /\ UNCHANGED << active_workflows, clock, run_wf, executed_tasks, next_task,
                    result, trace, exc, last_audit, audits, ret >>
    /\ UNCHANGED << tvars, other, agent >>

\* line 265: return self._generate_workflow_summary(workflow); an exception escaping
\* its mem_store call (line 341) escapes execute_workflow
return_summary(audit) ==
    /\ pc = "summary"
    /\ last_audit' = audit
    /\ audits' = Append(audits, [kind |-> "summary", task_id |-> NoTask])
    /\ ret' = IF mem_store_raises(audit)
              THEN [op |-> "execute_workflow", raised |-> TRUE]
              ELSE generate_workflow_summary(heap[run_wf])
    /\ pc' = "idle"
    /\ UNCHANGED << active_workflows, heap, clock, run_wf, executed_tasks, next_task,
                    result, trace, exc >>
    /\ UNCHANGED << tvars, other, agent >>

\* The engine with two workflow ids; the audit store answers or raises.
Next ==
    \/ \E w \in WfIds, s \in Servers, t \in TemplateInputs, a \in {"ok", "raised"} :
          create_workflow(w, s, t, a)
    \/ \E w \in WfIds : execute_workflow(w)
    \/ select_task
    \/ \E k \in EngineKinds : run_task(k)
    \/ \E a \in {"ok", "raised"} : audit_task(a)
    \/ finish_loop
    \/ \E a \in {"ok", "raised"} : return_summary(a)

Spec == Init /\ [][Next]_vars

\* The engine with one workflow id, every kind of response and every outcome of
\* an audit write.
NextOne ==
    \/ \E s \in Servers, t \in TemplateInputs, a \in AuditOutcomes :
          create_workflow("wf1", s, t, a)
    \/ \E w \in WfIds : execute_workflow(w)
    \/ select_task
    \/ \E k \in ResponseKinds : run_task(k)
    \/ \E a \in AuditOutcomes : audit_task(a)
    \/ finish_loop
    \/ \E a \in AuditOutcomes : return_summary(a)

SpecOne == Init /\ [][NextOne]_vars

\* ------------------------------------------- two threads calling the engine
\* app.py runs each request on a thread of its own and nothing in the engine
\* locks: the interpreter may suspend the thread that steps, between any two of
\* the steps above, and resume the other one.
switch ==
    /\ other' = [pc |-> pc, run_wf |-> run_wf, executed_tasks |-> executed_tasks,
                 next_task |-> next_task, result |-> result, trace |-> trace,
                 exc |-> exc, audits |-> audits, ret |-> ret]
    /\ pc' = other.pc
    /\ run_wf' = other.run_wf
    /\ executed_tasks' = other.executed_tasks
    /\ next_task' = other.next_task
    /\ result' = other.result
    /\ trace' = other.trace
    /\ exc' = other.exc
    /\ audits' = other.audits
    /\ ret' = other.ret
    /\ UNCHANGED << active_workflows, heap, clock, last_audit >>
    /\ UNCHANGED << tvars, agent >>

\* Two threads on one workflow id, as two POST /api/workflows for one server
\* within one second give (app.py, line 63).
NextC ==
    \/ create_workflow("wf1", "srv1", "web_server_diagnostic", "ok")
    \/ execute_workflow("wf1")
    \/ select_task
    \/ \E k \in {"stub", "none"} : run_task(k)
    \/ audit_task("ok")
    \/ finish_loop
    \/ return_summary("ok")
    \/ switch

SpecC == Init /\ [][NextC]_vars

\* ------------------------------------------------ runs of any task graph
\* One instance with any task graph; every task gets a reply, none, or an
\* exception, and the audit store answers or raises.
NextG ==
    \/ execute_workflow("wf1")
    \/ select_task
    \/ \E k \in {"stub", "none", "raises"} : run_task(k)
    \/ \E a \in {"ok", "raised"} : audit_task(a)
    \/ finish_loop
    \/ \E a \in {"ok", "raised"} : return_summary(a)

SpecG == InitG /\ [][NextG]_vars

\* The thread inside execute_workflow goes on: _find_next_task and the audit
\* write are local computations and calls with a timeout, and execute_command
\* returns within the response window of send_message (or raises)
RunStep ==
    \/ select_task
    \/ \E k \in {"stub", "none", "raises"} : run_task(k)
    \/ \E a \in {"ok", "raised"} : audit_task(a)
    \/ finish_loop
    \/ \E a \in {"ok", "raised"} : return_summary(a)

SpecGFair == InitG /\ [][NextG]_vars /\ WF_vars(RunStep)

\* ----------------------------------------------- the agent: operations
\* ServerManagementAgent.process_request(request); `resp` is what the client
\* gives the call, `audit` what mem_store does, `run` what agent.run does
process_request(request, resp, audit, run) ==
    /\ agent' = [context |-> process_request_context(agent.context, request),
                 request |-> request,
                 response |-> resp,
                 ret |-> process_request_value(request, resp, audit, run)]
    /\ UNCHANGED << evars, tvars >>

NextA ==
    \E request \in Requests, resp \in AgentResponses, audit \in AuditOutcomes,
       run \in RunOutcomes : process_request(request, resp, audit, run)

SpecA == Init /\ [][NextA]_vars

\* ------------------------------------------------- transport: operations
\* connect, lines 20-32: a new socket object replaces self.socket (the old one is
\* not closed); when the connection is made a reader thread is started, which
\* passes the loop test of line 65 and waits in recv on the new socket
connect_step(ok) ==
    /\ ops < MaxOps
    /\ ops' = ops + 1
    /\ conns' = Append(conns, NewConn(ok))
    /\ socket' = Len(conns) + 1
    /\ connected' = ok
    /\ readers' = IF ok THEN Append(readers, Len(conns) + 1) ELSE readers
    /\ disturbed' = (disturbed \/ ~ok \/ conns # << >>)
    /\ UNCHANGED << response_queue, callers, returned >>

\* connect() called by a user of the client alone
connect(ok) ==
    /\ connect_step(ok)
    /\ UNCHANGED << evars, agent >>

\* disconnect, lines 38-40
disconnect ==
    /\ conns' = IF socket # 0 THEN [conns EXCEPT ![socket].closed = TRUE] ELSE conns
    /\ connected' = FALSE
    /\ disturbed' = TRUE
    /\ UNCHANGED << socket, readers, response_queue, callers, returned, ops >>
    /\ UNCHANGED << evars, agent >>

\* send_message, lines 46-52: None when not connected or when sendall raises (the
\* socket is closed); else the message is written and the caller waits. A write
\* to a connection the peer has closed is lost, or raises.
send_message_step(c, message, write_raises) ==
    /\ callers[c] = NoRequest
    /\ IF ~connected
       THEN /\ returned' = [request |-> message, sent |-> FALSE, response |-> << >>]
            /\ UNCHANGED << conns, callers, ops, disturbed >>
       ELSE /\ ops < MaxOps
            /\ ops' = ops + 1
            /\ disturbed' = (disturbed \/ \E d \in Callers : callers[d] # NoRequest)
            /\ IF conns[socket].closed \/ (conns[socket].peer_closed /\ write_raises)
               THEN /\ returned' = [request |-> message, sent |-> FALSE, response |-> << >>]
                    /\ UNCHANGED << conns, callers >>
               ELSE /\ callers' = [callers EXCEPT ![c] = message]
                    /\ conns' = IF conns[socket].peer_closed THEN conns
                                ELSE [conns EXCEPT ![socket].to_server = Append(@, message)]
                    /\ UNCHANGED returned
    /\ UNCHANGED << connected, socket, readers, response_queue >>

\* send_message called by a user of the client alone
send_message(c, message, write_raises) ==
    /\ send_message_step(c, message, write_raises)
    /\ UNCHANGED << evars, agent >>

\* send_message, lines 55-56: response_queue.get hands over the oldest frame queued
send_message_response_step(c) ==
    /\ callers[c] # NoRequest
    /\ response_queue # << >>
    /\ returned' = [request |-> callers[c], sent |-> TRUE,
                    response |-> << Head(response_queue) >>]
    /\ callers' = [callers EXCEPT ![c] = NoRequest]
    /\ response_queue' = Tail(response_queue)
    /\ UNCHANGED << connected, socket, conns, readers, ops, disturbed >>

\* (mutant) the waiting caller takes only a frame that answers its request type
send_message_response_matching(c) ==
    /\ callers[c] # NoRequest
    /\ response_queue # << >>
    /\ Head(response_queue).response_to = callers[c].type
    /\ returned' = [request |-> callers[c], sent |-> TRUE,
                    response |-> << Head(response_queue) >>]
    /\ callers' = [callers EXCEPT ![c] = NoRequest]
    /\ response_queue' = Tail(response_queue)
    /\ UNCHANGED << connected, socket, conns, readers, ops, disturbed >>
    /\ UNCHANGED << evars, agent >>

\* (mutant) the waiting caller reads the oldest frame and leaves it queued
send_message_response_peek(c) ==
    /\ callers[c] # NoRequest
    /\ response_queue # << >>
    /\ returned' = [request |-> callers[c], sent |-> TRUE,
                    response |-> << Head(response_queue) >>]
    /\ callers' = [callers EXCEPT ![c] = NoRequest]
    /\ UNCHANGED << connected, socket, conns, readers, response_queue, ops, disturbed >>
    /\ UNCHANGED << evars, agent >>

\* the reply handed to a caller that uses the client alone
send_message_response(c) ==
    /\ send_message_response_step(c)
    /\ UNCHANGED << evars, agent >>

\* send_message, lines 55-59: response_queue.get(timeout=5) raises queue.Empty when
\* the window ends with the queue empty; the call returns None
send_message_timeout_step(c) ==
    /\ callers[c] # NoRequest
    /\ response_queue = << >>
    /\ returned' = [request |-> callers[c], sent |-> TRUE, response |-> << >>]
    /\ callers' = [callers EXCEPT ![c] = NoRequest]
    /\ disturbed' = TRUE
    /\ UNCHANGED << connected, socket, conns, readers, response_queue, ops >>

\* (mutant) response_queue.get() without a timeout
send_message_timeout_never(c) ==
    /\ FALSE
    /\ UNCHANGED vars

\* the timeout of a caller that uses the client alone
send_message_timeout(c) ==
    /\ send_message_timeout_step(c)
    /\ UNCHANGED << evars, agent >>

\* _ClientHandler.run, lines 43-55: one request received, its response written
agent_reply(g) ==
    /\ g \in 1..Len(conns)
    /\ ~conns[g].closed /\ ~conns[g].peer_closed
    /\ conns[g].to_server # << >>
    /\ conns' = [conns EXCEPT ![g].to_server = Tail(@),
                              ![g].from_server = Append(@, handle_request(Head(conns[g].to_server)))]
    /\ UNCHANGED << connected, socket, readers, response_queue, callers, returned, ops,
                    disturbed >>
    /\ UNCHANGED << evars, agent >>

\* _ClientHandler.run with two requests in one recv (the stream keeps no message
\* boundaries): json.loads raises and the ERROR reply is written
agent_reply_coalesced(g) ==
    /\ g \in 1..Len(conns)
    /\ ~conns[g].closed /\ ~conns[g].peer_closed
    /\ Len(conns[g].to_server) >= 2
    /\ conns' = [conns EXCEPT ![g].to_server = Tail(Tail(@)),
                              ![g].from_server = Append(@, ErrorFrame)]
    /\ disturbed' = TRUE
    /\ UNCHANGED << connected, socket, readers, response_queue, callers, returned, ops >>
    /\ UNCHANGED << evars, agent >>

\* a frame that answers no request: it has no response_to key
Notification == [type |-> "NOTIFICATION"]

\* the peer writes a frame of its own accord
agent_notify(g) ==
    /\ g \in 1..Len(conns)
    /\ conns[g].established /\ ~conns[g].closed /\ ~conns[g].peer_closed
    /\ ops < MaxOps
    /\ ops' = ops + 1
    /\ conns' = [conns EXCEPT ![g].from_server = Append(@, Notification)]
    /\ disturbed' = TRUE
    /\ UNCHANGED << connected, socket, readers, response_queue, callers, returned >>
    /\ UNCHANGED << evars, agent >>

\* the agent (or the network) closes the stream of a connection
peer_close(g) ==
    /\ g \in 1..Len(conns)
    /\ conns[g].established /\ ~conns[g].peer_closed
    /\ conns' = [conns EXCEPT ![g].peer_closed = TRUE, ![g].to_server = << >>]
    /\ disturbed' = TRUE
    /\ UNCHANGED << connected, socket, readers, response_queue, callers, returned, ops >>
    /\ UNCHANGED << evars, agent >>

\* _listen_for_messages, lines 65-76: one frame received; a frame with a
\* response_to key is put on response_queue (message_queue, which nothing reads,
\* is left out). Then the loop test: the reader waits in recv on what
\* self.socket is now, or leaves the loop and clears connected (line 82).
reader_recv(r) ==
    /\ r \in 1..Len(readers)
    /\ readers[r] # 0
    /\ ~conns[readers[r]].closed
    /\ conns[readers[r]].from_server # << >>
    /\ LET message == Head(conns[readers[r]].from_server)
       IN  response_queue' = IF "response_to" \in DOMAIN message
                             THEN Append(response_queue, message)
                             ELSE response_queue
    /\ conns' = [conns EXCEPT ![readers[r]].from_server = Tail(@)]
    /\ readers' = [readers EXCEPT ![r] = IF connected THEN socket ELSE 0]
    /\ UNCHANGED << connected, socket, callers, returned, ops, disturbed >>
    /\ UNCHANGED << evars, agent >>

\* (mutant) the reader leaves its loop without clearing connected
reader_exit_keeps_connected(r) ==
    /\ r \in 1..Len(readers)
    /\ readers[r] # 0
    /\ \/ conns[readers[r]].closed
       \/ conns[readers[r]].peer_closed /\ conns[readers[r]].from_server = << >>
       \/ Len(conns[readers[r]].from_server) >= 2
    /\ conns' = IF conns[readers[r]].closed THEN conns
                ELSE [conns EXCEPT ![readers[r]].from_server = << >>]
    /\ readers' = [readers EXCEPT ![r] = 0]
    /\ disturbed' = TRUE
    /\ UNCHANGED << connected, socket, response_queue, callers, returned, ops >>
    /\ UNCHANGED << evars, agent >>

\* _listen_for_messages, lines 68-69 and 78-82: the stream is at its end, or recv
\* or json.loads raises (the socket is closed, or two frames came in one recv):
\* the reader leaves the loop and clears connected
reader_exit(r) ==
    /\ r \in 1..Len(readers)
    /\ readers[r] # 0
    /\ \/ conns[readers[r]].closed
       \/ conns[readers[r]].peer_closed /\ conns[readers[r]].from_server = << >>
       \/ Len(conns[readers[r]].from_server) >= 2
    /\ conns' = IF conns[readers[r]].closed THEN conns
                ELSE [conns EXCEPT ![readers[r]].from_server = << >>]
    /\ readers' = [readers EXCEPT ![r] = 0]
    /\ connected' = FALSE
    /\ disturbed' = TRUE
    /\ UNCHANGED << socket, response_queue, callers, returned, ops >>
    /\ UNCHANGED << evars, agent >>

\* One MCPClient used by the threads of Callers against the agent.
NextT ==
    \/ \E ok \in BOOLEAN : connect(ok)
    \/ disconnect
    \/ \E c \in Callers, m \in Messages, w \in BOOLEAN : send_message(c, m, w)
    \/ \E c \in Callers : send_message_response(c)
    \/ \E c \in Callers : send_message_timeout(c)
    \/ \E g \in 1..MaxOps : agent_reply(g)
    \/ \E g \in 1..MaxOps : agent_reply_coalesced(g)
    \/ \E g \in 1..MaxOps : peer_close(g)
    \/ \E r \in 1..MaxOps : reader_recv(r)
    \/ \E r \in 1..MaxOps : reader_exit(r)

SpecT == Init /\ [][NextT]_vars

\* response_queue.get(timeout=5) returns or raises when its window ends: a
\* waiting caller does not wait for ever
SpecTFair ==
    /\ Init
    /\ [][NextT]_vars
    /\ \A c \in Callers : WF_vars(send_message_response(c) \/ send_message_timeout(c))

\* A reader thread runs: recv returns when a frame has come or the stream has
\* ended, and the thread then goes on to the end of its loop body
SpecTReaderFair ==
    /\ Init
    /\ [][NextT]_vars
    /\ \A r \in 1..MaxOps : WF_vars(reader_recv(r) \/ reader_exit(r))

\* ------------------------------------ frames that answer no request
\* The client against a peer that also writes frames without a response_to key.
NextR ==
    \/ NextT
    \/ \E g \in 1..MaxOps : agent_notify(g)

SpecR == Init /\ [][NextR]_vars

\* ------------------------------------ one caller, one send after another
\* One thread uses the client: a send_message call is made only after the
\* call before it has returned.
NextS ==
    \/ \E ok \in BOOLEAN : connect(ok)
    \/ disconnect
    \/ \E m \in Messages, w \in BOOLEAN : send_message("c1", m, w)
    \/ send_message_response("c1")
    \/ send_message_timeout("c1")
    \/ \E g \in 1..MaxOps : agent_reply(g)
    \/ \E g \in 1..MaxOps : agent_reply_coalesced(g)
    \/ \E g \in 1..MaxOps : peer_close(g)
    \/ \E r \in 1..MaxOps : reader_recv(r)
    \/ \E r \in 1..MaxOps : reader_exit(r)

SpecS == Init /\ [][NextS]_vars

\* ------------------------------- two workflows on the engine's one client
\* Two threads, each inside execute_workflow for a workflow id of its own, at a
\* task of its instance: _execute_task calls the engine's one MCPClient
TaskOf(c) == IF c = "c1" THEN system_health_check[1] ELSE web_server_diagnostic[1]
\* _execute_task: self.mcp_client.execute_command(server_id, task.command)
task_message(c) == command_message("srv1", TaskOf(c).command)
\* _execute_task: what it reads of the value send_message returned
frame_response(response) ==
    IF response = << >> THEN NoResponse
    ELSE LET frame == response[1]
         IN  Reply("status" \in DOMAIN frame,
                   IF "status" \in DOMAIN frame THEN frame.status ELSE "",
                   "output" \in DOMAIN frame,
                   IF "output" \in DOMAIN frame THEN frame.output ELSE << >>)

NextW ==
    \/ \E ok \in BOOLEAN : connect(ok)
    \/ \E c \in Callers, w \in BOOLEAN : send_message(c, task_message(c), w)
    \/ \E c \in Callers : send_message_response(c)
    \/ \E c \in Callers : send_message_timeout(c)
    \/ \E g \in 1..MaxOps : agent_reply(g)
    \/ \E g \in 1..MaxOps : agent_reply_coalesced(g)
    \/ \E g \in 1..MaxOps : peer_close(g)
    \/ \E r \in 1..MaxOps : reader_recv(r)
    \/ \E r \in 1..MaxOps : reader_exit(r)

SpecW == Init /\ [][NextW]_vars

\* ------------------------------- a run of the engine over its transport
\* One thread inside execute_workflow, with _execute_task taken line by line
\* against the engine's MCPClient and the agent at the other end.

\* (mutant) _execute_task without the test of line 285: the command is sent on
\* whatever the transport is
check_connected_never_reconnects ==
    /\ pc = "exec"
    /\ pc' = "send"
    /\ UNCHANGED << active_workflows, heap, clock, run_wf, executed_tasks, next_task,
                    result, trace, exc, last_audit, audits, ret >>
    /\ UNCHANGED << tvars, other, agent >>

\* _execute_task, line 285: if not self.mcp_client.connected
check_connected ==
    /\ pc = "exec"
    /\ pc' = IF connected THEN "send" ELSE "connect"
    /\ UNCHANGED << active_workflows, heap, clock, run_wf, executed_tasks, next_task,
                    result, trace, exc, last_audit, audits, ret >>
    /\ UNCHANGED << tvars, other, agent >>

\* _execute_task, line 286: self.mcp_client.connect(); its return value is not read
task_connect(ok) ==
    /\ pc = "connect"
    /\ connect_step(ok)
    /\ pc' = "reconnected"
    /\ UNCHANGED << active_workflows, heap, clock, run_wf, executed_tasks, next_task,
                    result, trace, exc, last_audit, audits, ret >>
    /\ UNCHANGED << other, agent >>

\* _execute_task, line 288: execute_command(server_id, task.command)
task_command == command_message(heap[run_wf].server_id,
                                TaskById(TasksOf(heap[run_wf]), next_task).command)

\* _execute_task, line 288, up to the write of send_message: when send_message
\* returns None at once (not connected, or the write raised) the result is made
\* of that None; else the thread waits in response_queue.get
task_send(write_raises) ==
    /\ pc \in {"send", "reconnected"}
    /\ send_message_step("c1", task_command, write_raises)
    /\ IF callers'["c1"] = NoRequest
       THEN record_result(frame_response(<< >>))
       ELSE /\ pc' = "wait"
            /\ UNCHANGED << active_workflows, heap, clock, run_wf, executed_tasks,
                            next_task, result, trace, exc, last_audit, audits, ret >>
            /\ UNCHANGED << other, agent >>

\* _execute_task, lines 288-306: send_message returns the frame it took off
\* response_queue, or None when its wait timed out, and the result is made of it
task_answer ==
    /\ pc = "wait"
    /\ \/ send_message_response_step("c1")
       \/ send_message_timeout_step("c1")
    /\ record_result(frame_response(returned'.response))

NextE ==
    \/ \E t \in TemplateNames : create_workflow("wf1", "srv1", t, "ok")
    \/ execute_workflow("wf1")
    \/ select_task
    \/ check_connected
    \/ \E ok \in BOOLEAN : task_connect(ok)
    \/ \E w \in BOOLEAN : task_send(w)
    \/ task_answer
    \/ audit_task("ok")
    \/ finish_loop
    \/ return_summary("ok")
    \/ \E g \in 1..MaxOps : agent_reply(g)
    \/ \E g \in 1..MaxOps : agent_reply_coalesced(g)
    \/ \E g \in 1..MaxOps : peer_close(g)
    \/ \E r \in 1..MaxOps : reader_recv(r)
    \/ \E r \in 1..MaxOps : reader_exit(r)

SpecE == Init /\ [][NextE]_vars

\* ------------------------------- two threads, each inside a task execution
\* The engine as app.py drives it: each POST /api/workflows runs create_workflow
\* and execute_workflow on a thread of its own, on the one engine of
\* get_workflow_engine(). A task execution is taken in two steps: the command is
\* sent, and later the result is made and recorded.

\* _execute_task, line 288: execute_command is called and the thread waits for
\* what it returns
begin_task ==
    /\ pc = "exec"
    /\ pc' = "wait"
    /\ UNCHANGED << active_workflows, heap, clock, run_wf, executed_tasks, next_task,
                    result, trace, exc, last_audit, audits, ret >>
    /\ UNCHANGED << tvars, other, agent >>

\* _execute_task, lines 288-306, and execute_workflow, lines 240-242:
\* execute_command returns and the result is recorded
end_task(kind) ==
    /\ pc = "wait"
    /\ record_result(Response(kind, TaskById(TasksOf(heap[run_wf]), next_task).command))
    /\ UNCHANGED tvars

NextP ==
    \/ \E w \in WfIds : create_workflow(w, "srv1", "system_health_check", "ok")
    \/ \E w \in WfIds : execute_workflow(w)
    \/ select_task
    \/ begin_task
    \/ \E k \in {"stub", "none"} : end_task(k)
    \/ audit_task("ok")
    \/ finish_loop
    \/ return_summary("ok")
    \/ switch

SpecP == Init /\ [][NextP]_vars

\* ------------------------------------------------------------ properties
Objects == DOMAIN heap
TypeOf(wf, id) == TaskById(TasksOf(wf), id).type
DepsOf(wf, id) == TaskById(TasksOf(wf), id).dependencies

\* an execute_workflow call on a registered id has just returned (or raised)
RunReturned == pc = "idle" /\ ret.op = "execute_workflow" /\ run_wf \in Objects
\* ... and what it returned is a Summary
IsSummary(r) == r.op = "execute_workflow" /\ "summary" \in DOMAIN r
\* a diagnostic task failed in the running call
DiagnosticFailed(wf, r) == r.status = "failed" /\ TypeOf(wf, r.task_id) = "diagnostic"

\* C1: in every state, in every instance, each task id that is a key of results
\* has all of its dependency ids as keys of results.
C1_DependencyOrdering ==
    \A o \in Objects :
        \A t \in ResultKeys(heap[o].results) :
            DepsOf(heap[o], t) \subseteq ResultKeys(heap[o].results)

\* C1 witness: a task with a dependency has a result.
C1_Witness ==
    \E o \in Objects :
        \E t \in ResultKeys(heap[o].results) : DepsOf(heap[o], t) # {}

\* C2: once a diagnostic task's result is failed, the running call executes no
\* further task: until it returns, no task is handed to _execute_task and the
\* instance's results do not change.
C2_StopOnDiagnosticFailure ==
    [][ ( /\ pc # "idle"
          /\ trace # << >>
          /\ DiagnosticFailed(heap[run_wf], trace[Len(trace)]) )
        => ( /\ trace' = trace
             /\ heap'[run_wf].results = heap[run_wf].results
             /\ executed_tasks' = executed_tasks ) ]_vars

\* C2 witness: a call returned after a diagnostic task failed, and a task that
\* depends on the failed one has no result.
C2_Witness ==
    /\ RunReturned
    /\ trace # << >>
    /\ DiagnosticFailed(heap[run_wf], trace[Len(trace)])
    /\ \E t \in TaskIds(TasksOf(heap[run_wf])) :
          /\ trace[Len(trace)].task_id \in DepsOf(heap[run_wf], t)
          /\ t \notin ResultKeys(heap[run_wf].results)

\* C3: during one execute_workflow call no task id is executed twice: the tasks
\* handed to _execute_task are pairwise distinct, they are exactly executed_tasks,
\* and the task selected for execution is not among them.
C3_NoReExecutionInRun ==
    /\ \A i, j \in 1..Len(trace) : i # j => trace[i].task_id # trace[j].task_id
    /\ executed_tasks = { trace[i].task_id : i \in 1..Len(trace) }
    /\ pc = "exec" => next_task \notin executed_tasks

\* C3 witness: a call that executed four tasks, the first of them failed, returned.
C3_Witness ==
    /\ RunReturned
    /\ Len(trace) = 4
    /\ trace[1].status = "failed"

\* the result recorded for task t in instance o changes in this step
Replaced(o, t) ==
    /\ t \in ResultKeys(heap[o].results)
    /\ ResultOf(heap'[o].results, t) # ResultOf(heap[o].results, t)

\* C4 (as claimed): over the life of an instance a recorded result is never
\* replaced by a second result for the same task id.
C4_NeverReExecuted ==
    [][ \A o \in Objects \cap DOMAIN heap' :
          \A t \in ResultKeys(heap[o].results) : ~ Replaced(o, t) ]_vars

OnePerKey(h) ==
    \A o \in DOMAIN h :
        \A i, j \in 1..Len(h[o].results) :
            i # j => h[o].results[i].task_id # h[o].results[j].task_id

\* C4 (amended): results holds one entry per task id, and a recorded result is
\* replaced only by the result of a later execute_workflow call on the
\* instance: by the task that call is executing, which that call has not
\* executed before, and with a later timestamp.
C4_ReplacedOnlyByLaterRun ==
    [][ /\ OnePerKey(heap')
        /\ \A o \in Objects \cap DOMAIN heap' :
             \A t \in ResultKeys(heap[o].results) :
                Replaced(o, t) =>
                   /\ pc = "exec" /\ o = run_wf /\ t = next_task
                   /\ t \notin executed_tasks
                   /\ ResultOf(heap'[o].results, t).timestamp
                        > ResultOf(heap[o].results, t).timestamp ]_vars

\* C4 witness: a later call replaced the first result of an instance: it is
\* newer than the result after it.
C4_Witness ==
    \E o \in Objects :
        /\ Len(heap[o].results) >= 2
        /\ heap[o].results[1].timestamp > heap[o].results[2].timestamp

\* C5: a failed result of a non-diagnostic task does not halt the run: when a call
\* returns without an internal fault and without a failed diagnostic task, every
\* task whose dependencies all have results was executed by it.
C5_NonDiagnosticFailureDoesNotHalt ==
    ( /\ RunReturned
      /\ ~ exc
      /\ \A i \in 1..Len(trace) : ~ DiagnosticFailed(heap[run_wf], trace[i]) )
    => \A t \in TaskIds(TasksOf(heap[run_wf])) :
          DepsOf(heap[run_wf], t) \subseteq ResultKeys(heap[run_wf].results)
             => t \in executed_tasks

\* C5 witness: a non-diagnostic task failed and a task depending on it was
\* executed after it in the same call, which returned.
C5_Witness ==
    /\ RunReturned
    /\ ~ exc
    /\ \E i, j \in 1..Len(trace) :
          /\ i < j
          /\ trace[i].status = "failed"
          /\ TypeOf(heap[run_wf], trace[i].task_id) # "diagnostic"
          /\ trace[i].task_id \in DepsOf(heap[run_wf], trace[j].task_id)

StatusChanges(allowed) ==
    \A o \in Objects \cap DOMAIN heap' :
        heap'[o].status # heap[o].status
           => << heap[o].status, heap'[o].status >> \in allowed

ForwardChanges ==
    { << "pending", "running" >>, << "running", "completed" >>, << "running", "failed" >> }

\* C6 (as claimed): the status of an instance only changes pending -> running,
\* running -> completed or running -> failed.
C6_StatusOnlyForward == [][ StatusChanges(ForwardChanges) ]_vars

\* C6 (amended): the status of an instance only changes pending -> running,
\* running -> completed, running -> failed, or, by a further execute_workflow
\* call on a completed or failed instance, back to running; it is never paused.
C6_StatusChanges ==
    [][ /\ StatusChanges(ForwardChanges \cup
             { << "completed", "running" >>, << "failed", "running" >> })
        /\ \A o \in DOMAIN heap' : heap'[o].status # "paused" ]_vars

\* C6 witness: a second call is running on an instance that has results.
C6_Witness ==
    /\ pc = "select"
    /\ executed_tasks = {}
    /\ heap[run_wf].status = "running"
    /\ heap[run_wf].results # << >>

\* C7 (as claimed): an instance whose status is completed or failed has no
\* current_task.
C7_TerminalClearsCurrentTask ==
    \A o \in Objects :
        heap[o].status \in {"completed", "failed"} => heap[o].current_task = NoTask

Abs(x) == IF x < 0 THEN -x ELSE x

HealthyRun ==
    /\ RunReturned
    /\ IsSummary(ret)
    /\ ~ exc
    /\ \A i \in 1..Len(trace) :
          /\ trace[i].status = "completed"
          /\ TypeOf(heap[run_wf], trace[i].task_id) = "monitoring"
                => ~ LowerContainsError(trace[i].output)

CreateReturns == pc = "idle" /\ ret'.op = "create_workflow"

\* C15: a create_workflow call with a template name that is not a recognized
\* template returns False (it does not raise), leaves the registry and every
\* instance as they were, and list_active_workflows gives what it gave before:
\* an id that was not registered is not listed afterwards.
C15_UnknownTemplate ==
    [][ (CreateReturns /\ ret'.template_name \notin TemplateNames) =>
            /\ ret'.value = "False"
            /\ active_workflows' = active_workflows
            /\ heap' = heap
            /\ list_active_workflows' = list_active_workflows
            /\ active_workflows[ret'.workflow_id] = 0 =>
                  \A p \in list_active_workflows' : p.id # ret'.workflow_id ]_vars

\* C15 witness: a create with an unknown template has returned False for an id
\* that is not registered, while the other id is registered.
C15_Witness ==
    /\ pc = "idle"
    /\ ret.op = "create_workflow"
    /\ ret.template_name \notin TemplateNames
    /\ ret.value = "False"
    /\ active_workflows[ret.workflow_id] = 0
    /\ list_active_workflows # {}
    /\ \A p \in list_active_workflows : p.id # ret.workflow_id

\* the response is a reply that has a status field
HasStatus(response) == response.present /\ ~ response.raises /\ response.has_status

\* the result of the running call's i-th task, as stored in results
Stored(i) == ResultOf(heap[run_wf].results, trace[i].task_id)

\* C16: a task whose response has a status field, whatever its value, gets a
\* result with status completed whose output is the response's output, empty
\* when the response has none; that result is the one stored.
C16_ReplyGivesCompleted ==
    \A i \in 1..Len(trace) :
        HasStatus(trace[i].response) =>
            /\ trace[i].status = "completed"
            /\ trace[i].output = IF trace[i].response.has_output
                                 THEN trace[i].response.output ELSE << >>
            /\ run_wf \in Objects =>
                  /\ Stored(i).status = "completed"
                  /\ Stored(i).output = trace[i].output

\* C16 witness: a reply with status "error" and no output gave a completed
\* result with empty output, and a reply with status "ok" one with its output.
C16_Witness ==
    /\ run_wf \in Objects
    /\ \E i \in 1..Len(trace) :
          /\ trace[i].response.present
          /\ trace[i].response.status = "error"
          /\ ~ trace[i].response.has_output
          /\ Stored(i).status = "completed"
          /\ Stored(i).output = << >>
    /\ \E i \in 1..Len(trace) :
          /\ trace[i].response.present
          /\ trace[i].response.status = "ok"
          /\ Stored(i).output = trace[i].response.output
          /\ Stored(i).output # << >>

\* C17: a task without a usable response (None, a reply without a status
\* field, an exception) gets one result, failed and with empty output; every
\* result is completed or failed; and the call goes on without entering its
\* except branch, and does not raise unless the audit write of its summary raised.
C17_TransportFailuresAreData ==
    /\ \A i \in 1..Len(trace) :
          /\ trace[i].status \in {"completed", "failed"}
          /\ ~ HasStatus(trace[i].response) =>
                /\ trace[i].status = "failed"
                /\ trace[i].output = << >>
                /\ \A j \in 1..Len(trace) : trace[j].task_id = trace[i].task_id => j = i
                /\ run_wf \in Objects =>
                      /\ Stored(i).status = "failed"
                      /\ Stored(i).output = << >>
    /\ OnePerKey(heap)
    /\ \A o \in Objects :
          \A i \in 1..Len(heap[o].results) :
              heap[o].results[i].status \in {"completed", "failed"}
    /\ pc \in {"select", "exec", "audit", "finish"} => ~ exc
    /\ (RunReturned /\ ~ IsSummary(ret)) => last_audit = "raised"

\* C17 witness: a call in which one task got None, one a reply without a status
\* field and one an exception has returned its summary.
C17_Witness ==
    /\ RunReturned
    /\ IsSummary(ret)
    /\ ~ exc
    /\ \E i \in 1..Len(trace) : ~ trace[i].response.present /\ ~ trace[i].response.raises
    /\ \E i \in 1..Len(trace) : trace[i].response.present /\ ~ trace[i].response.has_status
    /\ \E i \in 1..Len(trace) : trace[i].response.raises
    /\ ret.summary.failed >= 3

\* C18 (as stated, contradicted by the code): whenever an execute_workflow call
\* on a registered id is over, it has returned a Summary, and a call that met
\* an internal fault has returned status failed.
C18_FaultGivesFailedSummary ==
    RunReturned =>
        /\ IsSummary(ret)
        /\ exc => ret.status = "failed"

\* an audit record is written in this step: by create_workflow, after a task,
\* with the summary
CreateAudit == pc = "idle" /\ clock' = clock + 1
TaskAudit == pc = "audit" /\ pc' # "audit"
SummaryAudit == pc = "summary" /\ pc' = "idle"

\* C19: an audit write that fails (store gives False) changes nothing but the
\* log: create_workflow has registered a fresh pending instance and returns
\* True; after a task the run goes on, or halts, as the task's result says,
\* with no instance changed; the summary returned is the summary of the
\* instance, status, results and recommendations included.
C19_AuditFailureNoEffect ==
    [][ last_audit' = "failed" =>
          /\ CreateAudit =>
                /\ ret'.value = "True"
                /\ active_workflows'[ret'.workflow_id] = clock'
                /\ heap'[clock'].status = "pending"
                /\ heap'[clock'].template = ret'.template_name
          /\ TaskAudit =>
                /\ heap' = heap
                /\ ~ exc'
                /\ executed_tasks' = executed_tasks
                /\ pc' = IF DiagnosticFailed(heap[run_wf], result) THEN "finish" ELSE "select"
          /\ SummaryAudit =>
                /\ heap' = heap
                /\ ret' = generate_workflow_summary(heap[run_wf])
                /\ exc => last_audit = "raised" ]_vars

\* C19 witness: a run of four tasks in which an audit write failed after a task
\* and the last one failed too has returned a summary with status completed
\* and four completed results.
C19_Witness ==
    /\ RunReturned
    /\ IsSummary(ret)
    /\ last_audit = "failed"
    /\ ret.status = "completed"
    /\ ret.summary.completed = 4
    /\ Len(trace) = 4

\* the lines of a summary that are this line
Lines(r, line) == { i \in 1..Len(r.recommendations) : r.recommendations[i] = line }
Critical(id) == [level |-> "CRITICAL", task |-> id]
Warning(id) == [level |-> "WARNING", task |-> id]
\* the results of a summary for which a WARNING line is due
Warned(r) ==
    { i \in 1..Len(r.results) :
        /\ r.results[i].status # "failed"
        /\ TypeOf(heap[run_wf], r.results[i].task_id) = "monitoring"
        /\ LowerContainsError(r.results[i].output) }
Failed(r) == { i \in 1..Len(r.results) : r.results[i].status = "failed" }

Waiting == { c \in Callers : callers[c] # NoRequest }

\* C11 (as stated, contradicted by the code): a response that send_message
\* returns has a response_to equal to the type of the request the call sent.
C11_ResponseCorrelation ==
    returned.response # << >> =>
        returned.response[1].response_to = returned.request.type

\* C12 (as stated, contradicted by the code): at most one request is
\* outstanding on the transport: no caller writes its request while another
\* call has written one and has not returned.
C12_OneOutstanding == Cardinality(Waiting) <= 1

\* the connection of the transport is dropped: disconnect() was called, a reader
\* left its loop, or the peer closed the stream
Dropped ==
    \/ ~ connected
    \/ socket # 0 /\ (conns[socket].closed \/ conns[socket].peer_closed)

OkReply(request, frame) ==
    /\ frame.status = "ok"
    /\ frame.server_id = request.server_id
    /\ frame.response_to = request.type

\* C14: after a successful connect, with the requests sent one at a time, every
\* one answered by the agent inside the window and the connection left alone,
\* the transport stays connected and each request returns a response with
\* status "ok", the server id of the request and its type as response_to.
C14_RoundTrip ==
    (~ disturbed /\ conns # << >>) =>
        /\ connected
        /\ conns[socket].established
        /\ returned.sent =>
              /\ returned.response # << >>
              /\ OkReply(returned.request, returned.response[1])

\* C14 witness: a GET_SERVER_STATUS and then an EXECUTE_COMMAND for srv1 have
\* been answered, the second with the agent's output for the command.
C14_Witness ==
    /\ ~ disturbed
    /\ ops = 3
    /\ Waiting = {}
    /\ returned.sent
    /\ returned.request = command_message("srv1", "uptime")
    /\ returned.response = << [response_to |-> "EXECUTE_COMMAND", status |-> "ok",
                               server_id |-> "srv1", output |-> StubOutput("uptime")] >>

\* the ids the registry holds
Registered == { w \in WfIds : active_workflows[w] # 0 }

C22_RegistryOnlyGrows ==
    [][ \A w \in Registered :
          /\ w \in Registered'
          /\ Cardinality({ p \in list_active_workflows' : p.id = w }) = 1 ]_vars

\* C22 witness: two ids are registered and listed, one instance failed, the
\* other created after it.
C22_Witness ==
    /\ Registered = WfIds
    /\ Cardinality(list_active_workflows) = 2
    /\ \E p \in list_active_workflows : p.status = "failed"
    /\ \E p \in list_active_workflows : p.status = "pending" /\ p.created_at = clock

\* the ids of the tasks the running call has executed, in order
TraceIds == [i \in 1..Len(trace) |-> trace[i].task_id]
IsPrefix(p, q) == Len(p) <= Len(q) /\ \A i \in 1..Len(p) : p[i] = q[i]
\* the positions, in insertion order, of the tasks that may run after `done`
Eligible(tasks, done) ==
    { i \in 1..Len(tasks) : tasks[i].id \notin done /\ tasks[i].dependencies \subseteq done }
AllCompleted == \A i \in 1..Len(trace) : trace[i].status = "completed"

\* C26: each task a run executes is the first one, in the insertion order of
\* the template, among the tasks the run has not executed whose dependencies
\* it has executed; with all tasks succeeding system_health_check runs
\* check_disk_space, check_memory, check_cpu, check_processes and
\* web_server_diagnostic runs check_service_status, check_ports, check_logs,
\* test_connectivity.
C26_SelectionOrder ==
    [][ (pc = "exec" /\ pc' = "audit") =>
          LET tasks == heap[run_wf].tasks
              done == { trace[i].task_id : i \in 1..Len(trace) }
              first == CHOOSE i \in Eligible(tasks, done) :
                           \A j \in Eligible(tasks, done) : i <= j
          IN  /\ Eligible(tasks, done) # {}
              /\ Len(trace') = Len(trace) + 1
              /\ trace'[Len(trace')].task_id = tasks[first].id
              /\ (AllCompleted' /\ heap[run_wf].template = "system_health_check") =>
                    IsPrefix(TraceIds', << "check_disk_space", "check_memory",
                                           "check_cpu", "check_processes" >>)
              /\ (AllCompleted' /\ heap[run_wf].template = "web_server_diagnostic") =>
                    IsPrefix(TraceIds', << "check_service_status", "check_ports",
                                           "check_logs", "test_connectivity" >>) ]_vars

\* C26 witness: a run of web_server_diagnostic with all four tasks completed,
\* in the order of the claim.
C26_Witness ==
    /\ RunReturned
    /\ IsSummary(ret)
    /\ ret.template = "web_server_diagnostic"
    /\ AllCompleted
    /\ TraceIds = << "check_service_status", "check_ports", "check_logs",
                     "test_connectivity" >>

\* a failed diagnostic task has halted the running call
Halted == \E i \in 1..Len(trace) : DiagnosticFailed(heap[run_wf], trace[i])

\* C28: a run halted by a failed diagnostic task ends with status completed
\* and no current task, and so does its summary; an instance becomes failed
\* only in the step in which an exception escapes the audit write after a
\* task, never by the result of a task.
C28_HaltIsCompleted ==
    /\ [] ((RunReturned /\ Halted /\ ~ exc) =>
              /\ heap[run_wf].status = "completed"
              /\ heap[run_wf].current_task = NoTask
              /\ IsSummary(ret) => ret.status = "completed")
    /\ [][ \A o \in Objects \cap DOMAIN heap' :
              (heap'[o].status = "failed" /\ heap[o].status # "failed") =>
                  /\ pc = "audit"
                  /\ o = run_wf
                  /\ last_audit' = "raised"
                  /\ exc' ]_vars

\* C28 witness: a run halted by its first, failed, diagnostic task has returned
\* a summary with status completed.
C28_Witness ==
    /\ RunReturned
    /\ Halted
    /\ ~ exc
    /\ IsSummary(ret)
    /\ ret.status = "completed"
    /\ ret.summary.failed = 1
    /\ Len(trace) < Len(heap[run_wf].tasks)
    /\ heap[run_wf].current_task = NoTask

\* C29: when execute_workflow returns a Summary, the instance's status is
\* completed or failed and the summary's status is the instance's status, also
\* while another execute_workflow call on the same id is in progress.
\* (Refuted under SpecC: the other call has set the status to running in between.)
C29_SummaryStatusTerminal ==
    [][ (pc = "summary" /\ pc' = "idle" /\ IsSummary(ret'))
          => /\ heap'[run_wf].status \in {"completed", "failed"}
             /\ ret'.status = heap'[run_wf].status ]_vars

\* a step of connect() that fails: the new socket object is not connected
ConnectFails == Len(conns') = Len(conns) + 1 /\ ~ conns'[Len(conns')].established

\* C24: when connect() fails, connected is false (the value it returns), it has
\* started no reader, and the transport retains no socket object: self.socket
\* does not reference the socket whose connection failed.
\* (Refuted: line 21 assigns self.socket before line 22 tries to connect.)
C24_ConnectFailureRetainsNothing ==
    [][ ConnectFails
          => /\ ~ connected'
             /\ readers' = readers
             /\ (socket' = 0 \/ conns'[socket'].established) ]_vars

\* the task records of the first n tasks the running call executed, in order
TaskRecords(n) == [i \in 1..n |-> [kind |-> "task", task_id |-> trace[i].task_id]]
SummaryRecord == [kind |-> "summary", task_id |-> NoTask]

\* C30: in every run the audit records handed to the store are one task record
\* per executed task, in execution order, each after the task's result is stored
\* in the instance and before the next task is selected (also for the task
\* whose failure halts the run), then exactly one summary record, before
\* execute_workflow returns.
C30_AuditOrdering ==
    /\ pc \in {"select", "exec", "finish", "summary"} => audits = TaskRecords(Len(trace))
    /\ pc = "audit" => /\ audits = TaskRecords(Len(trace) - 1)
                       /\ Stored(Len(trace)) = result
    /\ RunReturned => audits = Append(TaskRecords(Len(trace)), SummaryRecord)

\* a run halted by its second task has returned: two task records, one summary record
C30_Witness ==
    /\ RunReturned
    /\ IsSummary(ret)
    /\ Len(trace) = 2
    /\ DiagnosticFailed(heap[run_wf], trace[2])
    /\ Len(audits) = 3

\* C25: process_request returns a string, never None, for every request: a
\* JSON request with a known action, with another or no action, and plain text,
\* whether or not the transport gives a response.
\* (Refuted: a JSON object with another action or none returns None.)
C25_ResponseNeverNone == ~ agent.ret.none

\* the tasks of the running instance that can never become eligible: the
\* complement of the least set closed under "all dependencies are in the set"
RECURSIVE Runnable(_, _)
Runnable(tasks, done) ==
    LET more == { tasks[i].id : i \in { j \in 1..Len(tasks) :
                     tasks[j].id \notin done /\ tasks[j].dependencies \subseteq done } }
    IN  IF more = {} THEN done ELSE Runnable(tasks, done \cup more)
Blocked(tasks) == TaskIds(tasks) \ Runnable(tasks, {})

\* C27 (safety): a run executes each task at most once, so at most as many
\* tasks as the instance has; a task that can never become eligible (a
\* dependency id that names no task, a dependency cycle) is not executed and
\* gets no result; the run that ends because no eligible task remains ends
\* with status completed.
C27_RunIsBounded ==
    pc # "idle" \/ RunReturned =>
       /\ Len(trace) <= Len(TasksOf(heap[run_wf]))
       /\ Cardinality(executed_tasks) = Len(trace)
       /\ \A id \in Blocked(TasksOf(heap[run_wf])) :
             /\ id \notin executed_tasks
             /\ id \notin ResultKeys(heap[run_wf].results)
       /\ (RunReturned /\ ~ exc) => heap[run_wf].status = "completed"

\* C27: execute_workflow terminates for every task graph and every sequence of
\* task outcomes, within the bounds of C27_RunIsBounded.
C27_RunTerminates == [] C27_RunIsBounded /\ ((pc # "idle") ~> (pc = "idle"))

\* a run has returned completed with one task executed, one task blocked by a
\* dependency that names no task and one by a cycle
C27_Witness ==
    /\ RunReturned
    /\ IsSummary(ret)
    /\ ret.status = "completed"
    /\ Len(trace) = 1
    /\ \E i \in 1..3 : "missing" \in TasksOf(heap[run_wf])[i].dependencies
    /\ \E i \in 1..3 : TasksOf(heap[run_wf])[i].id \in TasksOf(heap[run_wf])[i].dependencies

\* C23: two workflows with different ids run concurrently on one engine: the
\* output recorded for a task is the agent's reply to that task's own command,
\* never the reply to a request of the other workflow.
\* (Refuted: the engine's one client hands a waiting thread the oldest frame.)
C23_OwnReplyRecorded ==
    \A c \in Callers :
        returned.request = task_message(c) =>
            LET res == execute_task(TaskOf(c), frame_response(returned.response), clock)
            IN  (res.status = "completed" /\ res.output # << >>)
                    => res.output = StubOutput(TaskOf(c).command)

\* a step of execute_workflow for an id that is not registered
NotFoundReturns == pc = "idle" /\ ret'.op = "execute_workflow" /\ "error" \in DOMAIN ret'

\* C39: execute_workflow on an id that is not registered returns the error
\* value "Workflow not found" and has no effect: the registry and every
\* instance are as before, no task is executed (no request is sent), and no
\* audit record is written.
C39_UnknownIdNoEffect ==
    [][ NotFoundReturns =>
            /\ ret'.error = "Workflow not found"
            /\ active_workflows' = active_workflows
            /\ heap' = heap
            /\ list_active_workflows' = list_active_workflows
            /\ clock' = clock
            /\ pc' = "idle"
            /\ trace' = << >>
            /\ tvars' = tvars
            /\ audits' = << >>
            /\ last_audit' = last_audit ]_vars

\* C39 witness: the error was returned for one id while the other id is
\* registered and has run
C39_Witness ==
    /\ pc = "idle"
    /\ ret.op = "execute_workflow"
    /\ "error" \in DOMAIN ret
    /\ \E w \in WfIds : /\ active_workflows[w] # 0
                        /\ heap[active_workflows[w]].status = "completed"
    /\ \E w \in WfIds : active_workflows[w] = 0

\* the instance with another status or another current task, its tasks and
\* results kept
Variants(wf) ==
    { [wf EXCEPT !.status = s] : s \in {"pending", "running", "completed", "failed"} }
    \cup { [wf EXCEPT !.current_task = c] : c \in {NoTask, TasksOf(wf)[1].id} }

\* C38 (function): the counts and the recommendations of the summary are a
\* function of the tasks and the results alone; the summary returned is the
\* one of the instance as it is.
C38_SummaryOfTasksAndResults ==
    /\ \A o \in Objects : \A v \in Variants(heap[o]) :
          /\ generate_workflow_summary(v).summary = generate_workflow_summary(heap[o]).summary
          /\ generate_recommendations(v) = generate_recommendations(heap[o])
    /\ (RunReturned /\ IsSummary(ret)) =>
          /\ ret.recommendations = generate_recommendations(heap[run_wf])
          /\ ret.results = heap[run_wf].results

\* C38: producing the summary at the end of execute_workflow leaves every
\* instance (tasks, results, status, current_task) and the registry as they
\* were, and equal tasks and results give equal counts and recommendations.
C38_SummaryDoesNotMutate ==
    /\ [] C38_SummaryOfTasksAndResults
    /\ [][ SummaryAudit => (heap' = heap /\ active_workflows' = active_workflows) ]_vars

\* C38 witness: a summary with a CRITICAL line was returned for a failed
\* instance that keeps its current task
C38_Witness ==
    /\ RunReturned
    /\ IsSummary(ret)
    /\ ret.status = "failed"
    /\ heap[run_wf].current_task # NoTask
    /\ \E i \in 1..Len(ret.recommendations) : ret.recommendations[i].level = "CRITICAL"

\* the reader threads that have not left _listen_for_messages
ActiveReaders == { r \in 1..Len(readers) : readers[r] # 0 }

\* C36: at most one background reader is active per transport at any time,
\* under any sequence of connect, disconnect and reconnect.
\* (Refuted: connect starts a reader whether or not an earlier one still runs.)
C36_OneReader == Cardinality(ActiveReaders) <= 1

\* the stream of the transport's current connection has closed or has failed
StreamDown ==
    \/ conns[socket].peer_closed
    \/ Len(conns[socket].from_server) >= 2

\* C37: after a successful connect, connected stays true until the stream of
\* that same connection closes or errors, or disconnect() is called; the exit
\* of a reader of an earlier connection does not clear it.
\* (Refuted: every reader that leaves its loop clears connected, line 82.)
C37_ConnectedUntilOwnStreamEnds ==
    [][ (connected /\ ~ connected' /\ socket' = socket)
           => (conns'[socket].closed \/ StreamDown) ]_vars

\* C35: with one caller sending one request after another, the response a
\* send returns is the reply the agent produced for that very request; a late
\* reply to a send that timed out is not returned by a later send. (The
\* agent's reply to bytes it could not decode is left aside.)
\* (Refuted: the late reply stays on response_queue and the next send takes it.)
C35_ReplyToThatRequest ==
    (returned.response # << >> /\ returned.response[1] # ErrorFrame) =>
        returned.response[1] = handle_request(returned.request)

\* a send call returns a frame in this step
ReturnsFrame ==
    /\ returned'.response # << >>
    /\ \E c \in Callers : callers[c] # NoRequest /\ callers'[c] = NoRequest
\* the reader takes frame f off the stream of one connection in this step
TakenOffStream(f) ==
    \E g \in 1..Len(conns) :
        /\ conns[g].from_server # << >>
        /\ f = Head(conns[g].from_server)
        /\ conns'[g].from_server = Tail(conns[g].from_server)

\* C32 (state): every frame queued for the send calls, and every frame a send
\* call returned, carries a response_to key.
C32_OnlyResponsesRouted ==
    /\ \A i \in 1..Len(response_queue) : "response_to" \in DOMAIN response_queue[i]
    /\ returned.response # << >> => "response_to" \in DOMAIN returned.response[1]

\* C32: the reader hands each inbound frame with a response_to key to at most
\* one send call: a frame enters the queue once, when it is taken off its
\* stream, and the call that returns it takes it off the queue; a frame without
\* a response_to key is never queued and never returned.
C32_ReaderRouting ==
    /\ [] C32_OnlyResponsesRouted
    /\ [][ /\ ReturnsFrame =>
                /\ response_queue # << >>
                /\ returned'.response = << Head(response_queue) >>
                /\ response_queue' = Tail(response_queue)
                /\ Cardinality({ c \in Callers : callers'[c] # callers[c] }) = 1
           /\ Len(response_queue') > Len(response_queue) =>
                /\ Len(response_queue') = Len(response_queue) + 1
                /\ SubSeq(response_queue', 1, Len(response_queue)) = response_queue
                /\ TakenOffStream(response_queue'[Len(response_queue')])
           /\ Len(response_queue') < Len(response_queue) => ReturnsFrame ]_vars

\* C32 witness: on the one connection a request was answered and a frame
\* without response_to was written by the peer; the reader has read both, the
\* call has returned the answer and nothing is queued
C32_Witness ==
    /\ ops = 3
    /\ Len(conns) = 1
    /\ connected
    /\ ~ conns[1].peer_closed
    /\ conns[1].to_server = << >>
    /\ conns[1].from_server = << >>
    /\ response_queue = << >>
    /\ Waiting = {}
    /\ returned.sent
    /\ returned.response # << >>
    /\ returned.response[1] = handle_request(returned.request)

\* while the transport is disconnected no request is written and no call
\* waits: a send returns None at once; connected is set by a successful
\* connect only
DisconnectedSends ==
    /\ ~ connected =>
          /\ \A g \in 1..Len(conns) : Len(conns'[g].to_server) <= Len(conns[g].to_server)
          /\ \A c \in Callers : callers[c] = NoRequest => callers'[c] = NoRequest
          /\ (returned' # returned /\ callers' = callers) =>
                (returned'.response = << >> /\ ~ returned'.sent)
    /\ (~ connected /\ connected') =>
          (Len(conns') = Len(conns) + 1 /\ socket' = Len(conns') /\ conns'[socket'].established)

\* the peer has closed the stream of the transport's connection (a read or
\* decoding error is the step in which the reader leaves its loop)
StreamClosed == connected /\ conns[socket].peer_closed

SendsCommand ==
    /\ socket = Len(conns)
    /\ callers'["c1"] = task_command
    /\ ~ conns[socket].peer_closed =>
          conns'[socket].to_server = Append(conns[socket].to_server, task_command)
\* nothing is written to any connection and the task's result is failed
NoCommandSent ==
    /\ conns' = conns
    /\ result'.status = "failed" /\ result'.task_id = next_task
    /\ pc' = "audit"
\* the result in hand is that of a task whose command was not sent
Unsent == result.status = "failed" /\ ~ returned.sent /\ returned.request = task_command

\* The steps of a task that finds the transport disconnected; `up`: what is
\* required of the new connection, at the send, for the command to be sent
ReconnectOnDemand(up) ==
    /\ (pc = "exec" /\ pc' # "exec" /\ ~connected) => pc' = "connect" /\ conns' = conns
    /\ (pc = "connect" /\ pc' # "connect") =>
          /\ Len(conns') = Len(conns) + 1
          /\ conns'[Len(conns')].to_server = << >>
          /\ pc' = "reconnected"
    /\ (pc = "reconnected" /\ pc' # "reconnected") =>
          /\ (conns[Len(conns)].established /\ up) => SendsCommand
          /\ ~ conns[Len(conns)].established => NoCommandSent
    /\ (pc = "audit" /\ pc' # "audit" /\ Unsent) =>
          pc' = IF TypeOf(heap[run_wf], next_task) = "diagnostic" THEN "finish" ELSE "select"

\* C34 as stated: a task that finds the transport disconnected calls connect()
\* before it sends; when that connect succeeds the command is sent on the new
\* connection; when it fails no command is sent, the result is failed, and the
\* run goes on as the stop policy says.
C34_ReconnectOnDemand == [][ ReconnectOnDemand(TRUE) ]_vars

\* C34, amended: as above, but the command is sent on the new connection when
\* that connection is still up at the send: the peer has not closed it since and
\* the reader has not cleared connected.
C34_ReconnectOnDemandWhileUp ==
    [][ ReconnectOnDemand(connected /\ ~ conns[socket].peer_closed) ]_vars

\* a first task whose connect failed was recorded as failed, the run went on, and
\* a later task has connected and sent its command on the new connection
C34_Witness ==
    /\ pc = "wait"
    /\ Len(trace) >= 1 /\ trace[1].status = "failed"
    /\ Len(conns) >= 2 /\ ~ conns[1].established
    /\ socket = Len(conns) /\ conns[socket].established
    /\ callers["c1"] = task_command
    /\ task_command \in { conns[socket].to_server[i] : i \in 1..Len(conns[socket].to_server) }

\* ---------------------------------------------------------------- C31
\* the threads that are between sending a task's command and recording its result
InTask == { t \in {"stepping", "suspended"} :
              (IF t = "stepping" THEN pc ELSE other.pc) = "wait" }

\* C31: at no time are two task executions in progress on the engine, be they
\* tasks of one workflow instance or of two.
C31_OneTaskAtATime == Cardinality(InTask) <= 1
====
